---------------------------- MODULE Spec2Model ----------------------------
(***************************************************************************)
(* PixiePinks Ledger: the double-entry ledger behind main.py.              *)
(*                                                                         *)
(* The store is the relational schema of models.py (users, accounts,       *)
(* journal_entries, journal_lines, customers, suppliers, items).  Each     *)
(* route handler of main.py is one action; a handler's transaction         *)
(* (flush, rollback, commit) happens inside that action.                   *)
(*                                                                         *)
(* Money is counted in thousandths of the currency unit ("mills"), so      *)
(* that amounts finer than a cent can be submitted: 100.00 is 100000 and   *)
(* 0.004 is 4.  Form strings are TLA+ strings; the conversions the code    *)
(* applies to them (float(), strptime, strip, upper) are tables over the   *)
(* strings the requests draw from.  Every amount a request submits is an   *)
(* even number of mills, so no sum is a rounding tie.                      *)
(*                                                                         *)
(* Left out: memo, created_at and the line fields description,             *)
(* party_type, party_id and qty, which no handler reads back; the          *)
(* dashboard and the list pages, which only read and render.  The model    *)
(* starts from the running application: the import of settings.py and the  *)
(* middleware configuration are not part of it.                            *)
(***************************************************************************)
EXTENDS Integers, Sequences, FiniteSets, TLC

VARIABLES
    dialect,    \* database behind DATABASE_URL: "sqlite" or "postgresql"
    started,    \* the startup hook has run
    users,      \* table users
    accounts,   \* table accounts
    entries,    \* table journal_entries
    lines,      \* table journal_lines
    customers,  \* table customers
    suppliers,  \* table suppliers
    items,      \* table items
    session,    \* the uid held by the browser's session cookie (NoUid: none)
    resp        \* the response to the last request

vars == <<dialect, started, users, accounts, entries, lines,
          customers, suppliers, items, session, resp>>

store == <<users, accounts, entries, lines, customers, suppliers, items>>

(***************************************************************************)
(* Bounds of the model.                                                    *)
(***************************************************************************)
MaxEntries == 2       \* journal entry ids handed out
MaxReportEntries == 1 \* journal entries held when reports are drawn
MaxLines == 2         \* lines submitted with one entry
MaxNewAccounts == 1   \* accounts created through POST /accounts
MaxParties == 1       \* rows per master table

NULL == "NULL"        \* SQL NULL / Python None
NoUid == 0            \* session without "uid"
StaleUid == 2         \* a uid left in a cookie that matches no user

(***************************************************************************)
(* Generic helpers.                                                        *)
(***************************************************************************)
Max(S) == CHOOSE m \in S : \A x \in S : x <= m

\* autoincrement integer primary key: one more than the largest id in use
NewId(rows) == Max({0} \cup {r.id : r \in rows}) + 1

RECURSIVE SumField(_, _)
SumField(S, f) ==
    IF S = {} THEN 0
    ELSE LET l == CHOOSE x \in S : TRUE
         IN  l[f] + SumField(S \ {l}, f)

RECURSIVE SumSeq(_, _)
SumSeq(s, f) == IF s = <<>> THEN 0 ELSE Head(s)[f] + SumSeq(Tail(s), f)

\* the sequences over S of length 1..n
SeqsUpTo(S, n) == UNION {[1..k -> S] : k \in 1..n}

\* Python round(x, 2) on an amount in mills: nearest cent, ties to even
Round2(x) ==
    LET q == x \div 10
        r == x % 10
    IN  IF r < 5 THEN q * 10
        ELSE IF r > 5 THEN (q + 1) * 10
        ELSE IF q % 2 = 0 THEN q * 10 ELSE (q + 1) * 10

\* a Numeric(14, 2) column keeps two decimals: nearest cent, ties away from 0
Numeric2(x) ==
    LET a == IF x < 0 THEN -x ELSE x
        c == ((a + 5) \div 10) * 10
    IN  IF x < 0 THEN -c ELSE c


(***************************************************************************)
(* Conversions of form strings.                                            *)
(***************************************************************************)
\* float(s): the amount strings requests submit, in mills
FloatOf ==
    ("100.00" :> 100000) @@ ("90.00" :> 90000) @@ ("-100.00" :> (0 - 100000))
    @@ ("0.004" :> 4) @@ ("0.01" :> 10)

\* float(s) raises ValueError
FloatFails(s) == s # "" /\ s \notin DOMAIN FloatOf

\* float(dr or 0): the empty string is falsy and gives 0
FloatOr0(s) == IF s = "" THEN 0 ELSE FloatOf[s]

\* datetime.strptime(s, "%Y-%m-%d").date(), as the number yyyymmdd
DateOf ==
    ("2024-01-01" :> 20240101) @@ ("2024-01-05" :> 20240105)
    @@ ("2024-01-31" :> 20240131) @@ ("2024-02-10" :> 20240210)

StrptimeFails(s) == s \notin DOMAIN DateOf

\* str.strip()
StripOf ==
    (" Acme " :> "Acme") @@ (" asset " :> "asset") @@ (" 999" :> "999")

Strip(s) == IF s \in DOMAIN StripOf THEN StripOf[s] ELSE s

\* str.upper()
UpperOf == ("asset" :> "ASSET") @@ ("foo" :> "FOO") @@ ("income" :> "INCOME")

Upper(s) == IF s \in DOMAIN UpperOf THEN UpperOf[s] ELSE s

(***************************************************************************)
(* Chart of accounts and users.                                            *)
(***************************************************************************)
AccountTypes == {"ASSET", "LIABILITY", "EQUITY", "INCOME", "EXPENSE"}

\* seed_accounts: (code, name, type)
SeedChart == <<
    <<"1000", "Cash on Hand", "ASSET">>,
    <<"1010", "Bank - Current Account", "ASSET">>,
    <<"1100", "Accounts Receivable", "ASSET">>,
    <<"1200", "Inventory", "ASSET">>,
    <<"1500", "Prepaid Expenses", "ASSET">>,
    <<"2000", "Accounts Payable", "LIABILITY">>,
    <<"2100", "Taxes Payable (VAT/NBT)", "LIABILITY">>,
    <<"3000", "Owner's Equity", "EQUITY">>,
    <<"3100", "Retained Earnings", "EQUITY">>,
    <<"4000", "Sales Revenue", "INCOME">>,
    <<"4100", "Other Income", "INCOME">>,
    <<"5000", "Cost of Goods Sold", "EXPENSE">>,
    <<"5100", "Delivery & Courier Expense", "EXPENSE">>,
    <<"5200", "Advertising & Marketing", "EXPENSE">>,
    <<"5300", "Rent Expense", "EXPENSE">>,
    <<"5400", "Utilities Expense", "EXPENSE">>,
    <<"5500", "Bank Charges", "EXPENSE">> >>

\* Account(code=..., name=..., type=..., description=""): subtype is left NULL
RECURSIVE SeedFrom(_, _)
SeedFrom(i, accs) ==
    IF i > Len(SeedChart) THEN accs
    ELSE LET s == SeedChart[i]
         IN  IF \E a \in accs : a.code = s[1]
             THEN SeedFrom(i + 1, accs)
             ELSE SeedFrom(i + 1, accs \cup
                    {[id |-> NewId(accs), code |-> s[1], name |-> s[2],
                      type |-> s[3], subtype |-> NULL, description |-> ""]})

\* the seeding without its filter_by(code=code) test: every account of the
\* chart is added again
seed_accounts_NoTest(accs) ==
    accs \cup { [id |-> NewId(accs) + i - 1, code |-> SeedChart[i][1],
                 name |-> SeedChart[i][2], type |-> SeedChart[i][3],
                 subtype |-> NULL, description |-> ""] : i \in 1..Len(SeedChart) }

seed_accounts(accs) == SeedFrom(1, accs)

\* utils_auth.hash_password / verify_password
hash_password(p) == <<"hash", p>>
verify_password(p, h) == h = hash_password(p)

(***************************************************************************)
(* Responses.                                                              *)
(***************************************************************************)
NoResp == [route |-> "", status |-> 0, location |-> <<>>, ctx |-> <<>>]

\* RedirectResponse(location, status_code=303)
Redirect(route, loc) ==
    [route |-> route, status |-> 303, location |-> loc, ctx |-> <<>>]

\* templates.TemplateResponse(page, ctx)
Rendered(route, ctx) ==
    [route |-> route, status |-> 200, location |-> <<>>, ctx |-> ctx]

\* HTTPException(status_code=404), or an exception that escapes (500)
Failed(route, code) ==
    [route |-> route, status |-> code, location |-> <<>>, ctx |-> <<>>]

(***************************************************************************)
(* Initial state and startup.                                              *)
(***************************************************************************)
Init ==
    /\ dialect \in {"sqlite", "postgresql"}
    /\ started = FALSE
    /\ users = {}
    /\ accounts = {}
    /\ entries = {}
    /\ lines = {}
    /\ customers = {}
    /\ suppliers = {}
    /\ items = {}
    /\ session \in {NoUid, StaleUid}
    /\ resp = NoResp

\* startup(): create_all, init_db() seeds the chart, then the admin bootstrap
Startup ==
    /\ started' = TRUE
    /\ accounts' = seed_accounts(accounts)
    /\ users' = IF \E u \in users : u.username = "admin" THEN users
                ELSE users \cup {[id |-> NewId(users), username |-> "admin",
                                  password_hash |-> hash_password("change-me")]}
    /\ UNCHANGED <<dialect, entries, lines, customers, suppliers, items,
                   session, resp>>

(***************************************************************************)
(* Sessions and login.  A URL is a sequence of one-character strings; a    *)
(* request path is a sequence of path pieces.                              *)
(***************************************************************************)
LOGIN_PATH == <<"/login">>

SchemeChars == {"a"}
NetlocEnd == {"/", "?", "#"}

\* position of the ":" that ends a scheme, 0 when the URL has no scheme
SchemeEnd(u) ==
    IF \E i \in 2..Len(u) : u[i] = ":" /\ \A j \in 1..(i - 1) : u[j] \in SchemeChars
    THEN CHOOSE i \in 2..Len(u) :
            /\ u[i] = ":"
            /\ \A j \in 1..(i - 1) : u[j] \in SchemeChars
    ELSE 0

\* urlparse(u).netloc is not empty
HasNetloc(u) ==
    LET rest == SubSeq(u, SchemeEnd(u) + 1, Len(u))
    IN  /\ Len(rest) >= 3
        /\ rest[1] = "/"
        /\ rest[2] = "/"
        /\ rest[3] \notin NetlocEnd

\* _is_safe_next
_is_safe_next(next_url) ==
    (~HasNetloc(next_url)) /\ Len(next_url) >= 1 /\ next_url[1] = "/"

\* urllib.parse.quote: "/" and unreserved characters are kept
QuoteChar(c) == IF c = ":" THEN "%3A" ELSE c
quote(u) == [i \in 1..Len(u) |-> QuoteChar(u[i])]

\* the next values a login form submits: "/", "/a", "//a", "a://a", "///a"
NextUrls ==
    { <<"/">>, <<"/", "a">>, <<"/", "/", "a">>, <<"a", ":", "/", "/", "a">>,
      <<"/", "/", "/", "a">> }

\* the user require_user returns: db.get(User, uid) for a truthy uid
Authenticated == session # NoUid /\ \E u \in users : u.id = session

RowIds == 1..(Max({MaxEntries, MaxParties}) + 1)

\* paths of the routes that declare user: User = Depends(require_user)
ProtectedPaths ==
    { <<"/">>, <<"/accounts">>, <<"/customers">>, <<"/suppliers">>, <<"/items">>,
      <<"/entries">>, <<"/reports/trial-balance">>,
      <<"/reports/income-statement">>, <<"/reports/balance-sheet">> }
    \cup { <<t, ToString(i), "/delete">> :
             t \in {"/customers/", "/suppliers/", "/items/", "/entries/"},
             i \in RowIds }

\* require_user raises: no uid, or a uid with no user (the session is cleared)
RequireUserFails(path) ==
    /\ started
    /\ ~Authenticated
    /\ session' = NoUid
    /\ resp' = Redirect("require_user", LOGIN_PATH \o <<"?next=">> \o quote(path))
    /\ UNCHANGED <<dialect, started, store>>

\* POST /login
login_post(username, password, next) ==
    /\ started
    /\ LET found == {u \in users : u.username = username}
       IN  IF found # {} /\ \A u \in found : verify_password(password, u.password_hash)
           THEN /\ session' = (CHOOSE u \in found : TRUE).id
                /\ resp' = Redirect("login_post",
                                    IF _is_safe_next(next) THEN next ELSE <<"/">>)
           ELSE /\ session' = session
                /\ resp' = Redirect("login_post",
                              LOGIN_PATH \o <<"?error=Invalid&next=">> \o quote(next))
    /\ UNCHANGED <<dialect, started, store>>

\* GET /logout
logout ==
    /\ started
    /\ session' = NoUid
    /\ resp' = Redirect("logout", LOGIN_PATH)
    /\ UNCHANGED <<dialect, started, store>>

(***************************************************************************)
(* Journal entries.                                                        *)
(***************************************************************************)
CashId == 1       \* "1000" Cash on Hand, ASSET
SalesId == 10     \* "4000" Sales Revenue, INCOME
\* the id POST /accounts gives the first account created after the seeds
NewAccountId == Len(SeedChart) + 1

\* the form rows a request to POST /entries is made of:
\* (accounts[i], debits[i], credits[i]) as zip() pairs them; every list
\* is a required form field, so a request has at least one row
LineInputs ==
    { [account |-> CashId, dr |-> "100.00", cr |-> ""],
      [account |-> SalesId, dr |-> "", cr |-> "100.00"],
      [account |-> SalesId, dr |-> "", cr |-> "90.00"],
      [account |-> CashId, dr |-> "0.004", cr |-> ""],
      [account |-> SalesId, dr |-> "0.004", cr |-> "0.01"],
      [account |-> CashId, dr |-> "-100.00", cr |-> ""],
      [account |-> NewAccountId, dr |-> "100.00", cr |-> ""] }

EntryForms == SeqsUpTo(LineInputs, MaxLines)

EntryDateStrs == {"2024-01-05", "2024-02-10", "bad"}

\* the amounts float(dr or 0), float(cr or 0) of each form row
Parsed(form) ==
    [i \in 1..Len(form) |->
        [account |-> form[i].account,
         debit |-> FloatOr0(form[i].dr),
         credit |-> FloatOr0(form[i].cr)]]

\* what a Numeric(14, 2) column holds of a float: PostgreSQL rounds it to the
\* column's scale, SQLite keeps the float it is given
Stored(x) == IF dialect = "postgresql" THEN Numeric2(x) ELSE x

\* JournalLine(entry_id=entry.id, account_id=int(a), debit=dr_amt, credit=cr_amt)
\* as the journal_lines table holds it
NewLines(eid, amounts, lns) ==
    { [id |-> NewId(lns) + i - 1,
       entry_id |-> eid,
       account_id |-> amounts[i].account,
       debit |-> Stored(amounts[i].debit),
       credit |-> Stored(amounts[i].credit)] : i \in 1..Len(amounts) }

\* round(x, 1): nearest tenth
Round1(x) == ((x + 50) \div 100) * 100

\* the totals compared at one decimal instead of two
Balanced_OneDecimal(total_debit, total_credit) ==
    Round1(total_debit) = Round1(total_credit)

\* the test create_entry commits on: round(total_debit, 2) == round(total_credit, 2)
Balanced(total_debit, total_credit) == Round2(total_debit) = Round2(total_credit)

\* the database checks FOREIGN KEY constraints: SQLite does not unless
\* PRAGMA foreign_keys is switched on, which database.py never does
ForeignKeysEnforced == dialect = "postgresql"

\* the body of create_entry: the journal tables it leaves and its response
CreateEntry(date_str, form) ==
    IF StrptimeFails(date_str)
       \/ \E i \in 1..Len(form) : FloatFails(form[i].dr) \/ FloatFails(form[i].cr)
    THEN \* ValueError: the session is closed without a commit
         [entries |-> entries, lines |-> lines,
          resp |-> Failed("create_entry", 500)]
    ELSE LET eid == NewId(entries)
             amounts == Parsed(form)
             total_debit == SumSeq(amounts, "debit")
             total_credit == SumSeq(amounts, "credit")
         IN  IF ~Balanced(total_debit, total_credit)
             THEN \* db.rollback(): the flushed entry and the pending lines go
                  [entries |-> entries, lines |-> lines,
                   resp |-> Redirect("create_entry",
                                     <<"/entries", "?error=Not%20balanced">>)]
             ELSE IF /\ ForeignKeysEnforced
                     /\ \E i \in 1..Len(amounts) :
                           \A a \in accounts : a.id # amounts[i].account
             THEN \* db.commit() raises IntegrityError
                  [entries |-> entries, lines |-> lines,
                   resp |-> Failed("create_entry", 500)]
             ELSE \* db.commit()
                  [entries |-> entries \cup {[id |-> eid, date |-> DateOf[date_str]]},
                   lines |-> lines \cup NewLines(eid, amounts, lines),
                   resp |-> Redirect("create_entry", <<"/entries">>)]

\* POST /entries
create_entry(date_str, form) ==
    /\ started
    /\ Authenticated
    /\ LET done == CreateEntry(date_str, form)
       IN  /\ done.entries # entries => NewId(entries) <= MaxEntries
           /\ entries' = done.entries
           /\ lines' = done.lines
           /\ resp' = done.resp
    /\ UNCHANGED <<dialect, started, users, accounts, customers, suppliers,
                   items, session>>

\* the relationship without its cascade: the lines stay
CascadeEntry_None(lns, entry_id) == lns

\* JournalEntry.lines, cascade="all, delete-orphan": the lines left once
\* the entry is deleted
CascadeEntry(lns, entry_id) == {l \in lns : l.entry_id # entry_id}

\* delete_entry without its lookup: a missing id is answered like a found one
delete_entry_NoLookup(entry_id) ==
    /\ started
    /\ Authenticated
    /\ entries' = {e \in entries : e.id # entry_id}
    /\ lines' = CascadeEntry(lines, entry_id)
    /\ resp' = Redirect("delete_entry", <<"/entries">>)
    /\ UNCHANGED <<dialect, started, users, accounts, customers, suppliers,
                   items, session>>

\* POST /entries/{entry_id}/delete
delete_entry(entry_id) ==
    /\ started
    /\ Authenticated
    /\ IF \A e \in entries : e.id # entry_id
       THEN /\ resp' = Failed("delete_entry", 404)
            /\ UNCHANGED <<entries, lines>>
       ELSE /\ entries' = {e \in entries : e.id # entry_id}
            /\ lines' = CascadeEntry(lines, entry_id)
            /\ resp' = Redirect("delete_entry", <<"/entries">>)
    /\ UNCHANGED <<dialect, started, users, accounts, customers, suppliers,
                   items, session>>

(***************************************************************************)
(* Accounts and master data.                                               *)
(***************************************************************************)
\* POST /accounts: the handler declares no require_user dependency
create_account(code, name, type, subtype, description) ==
    /\ started
    /\ LET acc == [id |-> NewId(accounts),
                   code |-> Strip(code),
                   name |-> Strip(name),
                   type |-> Upper(Strip(type)),
                   subtype |-> Strip(subtype),
                   description |-> Strip(description)]
       IN  IF \E a \in accounts : a.code = acc.code
           THEN \* accounts.code is unique: db.commit() raises IntegrityError
                /\ resp' = Failed("create_account", 500)
                /\ UNCHANGED accounts
           ELSE /\ Cardinality(accounts) < Len(SeedChart) + MaxNewAccounts
                /\ accounts' = accounts \cup {acc}
                /\ resp' = Redirect("create_account", <<"/accounts">>)
    /\ UNCHANGED <<dialect, started, users, entries, lines, customers,
                   suppliers, items, session>>

\* Customer / Supplier: name is unique and not NULL
PartyInsertOk(rows, row) == row.name # NULL /\ \A r \in rows : r.name # row.name

\* Item: name and sku are unique and not NULL
ItemInsertOk(rows, row) ==
    /\ row.name # NULL
    /\ row.sku # NULL
    /\ \A r \in rows : r.name # row.name /\ r.sku # row.sku

\* POST /customers
create_customer(name, email, phone) ==
    /\ started
    /\ Authenticated
    /\ LET c == [id |-> NewId(customers), name |-> Strip(name),
                 email |-> Strip(email), phone |-> Strip(phone)]
       IN  IF PartyInsertOk(customers, c)
           THEN /\ Cardinality(customers) < MaxParties
                /\ customers' = customers \cup {c}
                /\ resp' = Redirect("create_customer", <<"/customers">>)
           ELSE /\ resp' = Failed("create_customer", 500)
                /\ UNCHANGED customers
    /\ UNCHANGED <<dialect, started, users, accounts, entries, lines,
                   suppliers, items, session>>

\* POST /suppliers
create_supplier(name, email, phone) ==
    /\ started
    /\ Authenticated
    /\ LET sup == [id |-> NewId(suppliers), name |-> Strip(name),
                   email |-> Strip(email), phone |-> Strip(phone)]
       IN  IF PartyInsertOk(suppliers, sup)
           THEN /\ Cardinality(suppliers) < MaxParties
                /\ suppliers' = suppliers \cup {sup}
                /\ resp' = Redirect("create_supplier", <<"/suppliers">>)
           ELSE /\ resp' = Failed("create_supplier", 500)
                /\ UNCHANGED suppliers
    /\ UNCHANGED <<dialect, started, users, accounts, entries, lines,
                   customers, items, session>>

\* POST /items: Item(name=..., unit=...) gives no sku, so the column is NULL
create_item(name, unit) ==
    /\ started
    /\ Authenticated
    /\ LET it == [id |-> NewId(items), name |-> Strip(name), sku |-> NULL,
                  unit |-> Strip(unit)]
       IN  IF ItemInsertOk(items, it)
           THEN /\ Cardinality(items) < MaxParties
                /\ items' = items \cup {it}
                /\ resp' = Redirect("create_item", <<"/items">>)
           ELSE /\ resp' = Failed("create_item", 500)
                /\ UNCHANGED items
    /\ UNCHANGED <<dialect, started, users, accounts, entries, lines,
                   customers, suppliers, session>>

\* POST /customers/{cust_id}/delete
delete_customer(cust_id) ==
    /\ started
    /\ Authenticated
    /\ IF \A c \in customers : c.id # cust_id
       THEN /\ resp' = Failed("delete_customer", 404)
            /\ UNCHANGED customers
       ELSE /\ customers' = {c \in customers : c.id # cust_id}
            /\ resp' = Redirect("delete_customer", <<"/customers">>)
    /\ UNCHANGED <<dialect, started, users, accounts, entries, lines,
                   suppliers, items, session>>

\* POST /suppliers/{sup_id}/delete
delete_supplier(sup_id) ==
    /\ started
    /\ Authenticated
    /\ IF \A x \in suppliers : x.id # sup_id
       THEN /\ resp' = Failed("delete_supplier", 404)
            /\ UNCHANGED suppliers
       ELSE /\ suppliers' = {x \in suppliers : x.id # sup_id}
            /\ resp' = Redirect("delete_supplier", <<"/suppliers">>)
    /\ UNCHANGED <<dialect, started, users, accounts, entries, lines,
                   customers, items, session>>

\* POST /items/{item_id}/delete
delete_item(item_id) ==
    /\ started
    /\ Authenticated
    /\ IF \A x \in items : x.id # item_id
       THEN /\ resp' = Failed("delete_item", 404)
            /\ UNCHANGED items
       ELSE /\ items' = {x \in items : x.id # item_id}
            /\ resp' = Redirect("delete_item", <<"/items">>)
    /\ UNCHANGED <<dialect, started, users, accounts, entries, lines,
                   customers, suppliers, session>>

(***************************************************************************)
(* Reports.                                                                *)
(***************************************************************************)
NoDate == 0     \* None: the bound is absent

\* a query parameter that is absent (None) or empty is falsy
OptDate(s) == IF s = "" THEN NoDate ELSE DateOf[s]

QueryDates == {"", "2024-01-31"}

\* the characters of an account code, as their code points' ranks
CodeChars ==
    ("1000" :> <<1, 0, 0, 0>>) @@ ("1010" :> <<1, 0, 1, 0>>)
    @@ ("1100" :> <<1, 1, 0, 0>>) @@ ("1200" :> <<1, 2, 0, 0>>)
    @@ ("1500" :> <<1, 5, 0, 0>>) @@ ("2000" :> <<2, 0, 0, 0>>)
    @@ ("2100" :> <<2, 1, 0, 0>>) @@ ("3000" :> <<3, 0, 0, 0>>)
    @@ ("3100" :> <<3, 1, 0, 0>>) @@ ("4000" :> <<4, 0, 0, 0>>)
    @@ ("4100" :> <<4, 1, 0, 0>>) @@ ("5000" :> <<5, 0, 0, 0>>)
    @@ ("5100" :> <<5, 1, 0, 0>>) @@ ("5200" :> <<5, 2, 0, 0>>)
    @@ ("5300" :> <<5, 3, 0, 0>>) @@ ("5400" :> <<5, 4, 0, 0>>)
    @@ ("5500" :> <<5, 5, 0, 0>>) @@ ("999" :> <<9, 9, 9>>)
    @@ ("1005" :> <<1, 0, 0, 5>>)

\* string order: s < t
LexLess(s, t) ==
    \E k \in 1..(Len(t)) :
        /\ \A j \in 1..(k - 1) : j <= Len(s) /\ s[j] = t[j]
        /\ \/ k > Len(s)
           \/ k <= Len(s) /\ s[k] < t[k]

\* .order_by(Account.code): the rows in ascending string order of code
RECURSIVE OrderByCode(_)
OrderByCode(accs) ==
    IF accs = {} THEN <<>>
    ELSE LET m == CHOOSE a \in accs :
                    \A b \in accs : ~LexLess(CodeChars[b.code], CodeChars[a.code])
         IN  <<m>> \o OrderByCode(accs \ {m})

\* db.query(Account).all(): the rows in primary key order
RECURSIVE OrderById(_)
OrderById(accs) ==
    IF accs = {} THEN <<>>
    ELSE LET m == CHOOSE a \in accs : \A b \in accs : a.id <= b.id
         IN  <<m>> \o OrderById(accs \ {m})

InRange(d, start_dt, end_dt) ==
    /\ start_dt = NoDate \/ d >= start_dt
    /\ end_dt = NoDate \/ d <= end_dt

\* journal_lines of one account joined to their journal_entries, filtered by date
JoinedLines(acc_id, start_dt, end_dt) ==
    {l \in lines :
        /\ l.account_id = acc_id
        /\ \E e \in entries : e.id = l.entry_id /\ InRange(e.date, start_dt, end_dt)}

\* func.coalesce(func.sum(column), 0) over the rows: the result has the
\* column's type Numeric(14, 2), so it comes back with two decimals
SumColumn(rows, column) == Numeric2(SumField(rows, column))

\* a row whose balance is normalized by the account type, as balance_sheet's
\* account_balance does
TrialRow_Normalized(acc, start_dt, end_dt) ==
    LET dr_amt == SumColumn(JoinedLines(acc.id, start_dt, end_dt), "debit")
        cr_amt == SumColumn(JoinedLines(acc.id, start_dt, end_dt), "credit")
        bal == IF acc.type \in {"ASSET", "EXPENSE"} THEN dr_amt - cr_amt
               ELSE cr_amt - dr_amt
    IN  [code |-> acc.code, name |-> acc.name,
         debit |-> IF bal > 0 THEN bal ELSE 0,
         credit |-> IF bal < 0 THEN 0 - bal ELSE 0]

\* one row of the trial balance: the raw dr - cr split over two columns
TrialRow(acc, start_dt, end_dt) ==
    LET dr_amt == SumColumn(JoinedLines(acc.id, start_dt, end_dt), "debit")
        cr_amt == SumColumn(JoinedLines(acc.id, start_dt, end_dt), "credit")
        bal == dr_amt - cr_amt
    IN  [code |-> acc.code, name |-> acc.name,
         debit |-> IF bal > 0 THEN bal ELSE 0,
         credit |-> IF bal < 0 THEN 0 - bal ELSE 0]

\* the context trial_balance renders
TrialBalance(start, end) ==
    LET accs == OrderByCode(accounts)
        rows == [i \in 1..Len(accs) |-> TrialRow(accs[i], OptDate(start), OptDate(end))]
    IN  [rows |-> rows,
         total_debit |-> SumSeq(rows, "debit"),
         total_credit |-> SumSeq(rows, "credit"),
         start |-> start, end |-> end]

\* GET /reports/trial-balance
trial_balance(start, end) ==
    /\ started
    /\ Authenticated
    /\ resp' = Rendered("trial_balance", TrialBalance(start, end))
    /\ UNCHANGED <<dialect, started, store, session>>

\* Account.type == "INCOME"
IsIncome(a) == a.type = "INCOME"

\* Account.code == "5000"
IsCogs(a) == a.code = "5000"

\* every EXPENSE account counted, Cost of Goods Sold included
IsOtherExpense_All(a) == a.type = "EXPENSE"

\* Account.type == "EXPENSE", Account.code != "5000"
IsOtherExpense(a) == a.type = "EXPENSE" /\ a.code # "5000"

\* journal_lines joined to accounts and to journal_entries, with
\* JournalEntry.date >= start_dt, JournalEntry.date <= end_dt
StatementLines(kept, start_dt, end_dt) ==
    {l \in lines :
        /\ \E a \in kept : a.id = l.account_id
        /\ \E e \in entries :
              e.id = l.entry_id /\ e.date >= start_dt /\ e.date <= end_dt}

\* the context income_statement renders
IncomeStatement(start, end) ==
    IF start = "" \/ end = ""
    THEN [start |-> start, end |-> end, income |-> 0, cogs |-> 0,
          other_exp |-> 0, gross_profit |-> 0, net_profit |-> 0]
    ELSE
    LET start_dt == DateOf[start]
        end_dt == DateOf[end]
        income == SumColumn(StatementLines({a \in accounts : IsIncome(a)},
                                       start_dt, end_dt), "credit")
        cogs == SumColumn(StatementLines({a \in accounts : IsCogs(a)},
                                       start_dt, end_dt), "debit")
        other_exp ==
            SumColumn(StatementLines({a \in accounts : IsOtherExpense(a)},
                                       start_dt, end_dt), "debit")
        gross_profit == income - cogs
    IN  [start |-> start, end |-> end, income |-> income, cogs |-> cogs,
         other_exp |-> other_exp, gross_profit |-> gross_profit,
         net_profit |-> gross_profit - other_exp]

\* GET /reports/income-statement
income_statement(start, end) ==
    /\ started
    /\ Authenticated
    /\ resp' = Rendered("income_statement", IncomeStatement(start, end))
    /\ UNCHANGED <<dialect, started, store, session>>

\* balance_sheet's inner account_balance: the sign follows the account type
account_balance(acc, as_of_dt) ==
    LET dr == SumColumn(JoinedLines(acc.id, NoDate, as_of_dt), "debit")
        cr == SumColumn(JoinedLines(acc.id, NoDate, as_of_dt), "credit")
    IN  IF acc.type \in {"ASSET", "EXPENSE"} THEN dr - cr ELSE cr - dr

Abs(x) == IF x < 0 THEN 0 - x ELSE x

\* abs(bal) < 0.01: the account is skipped
Immaterial(bal) == Abs(bal) < 10

\* the (name, bal) pairs appended to one list of the balance sheet
Bucket(accs, as_of_dt, type, subtype) ==
    LET kept == SelectSeq(accs, LAMBDA a :
                    /\ a.type = type
                    /\ a.subtype = subtype
                    /\ ~Immaterial(account_balance(a, as_of_dt)))
    IN  [i \in 1..Len(kept) |->
            [name |-> kept[i].name, bal |-> account_balance(kept[i], as_of_dt)]]

\* what an account with balance bal adds to retained_earnings
RetainedPart(a, bal) ==
    IF Immaterial(bal) THEN 0
    ELSE IF a.type = "EQUITY" /\ a.subtype = "RETAINED_EARNINGS" THEN bal
    ELSE IF a.type = "INCOME" THEN bal
    ELSE IF a.type = "EXPENSE" THEN 0 - bal
    ELSE 0

RECURSIVE RetainedEarnings(_, _)
RetainedEarnings(accs, as_of_dt) ==
    IF accs = <<>> THEN 0
    ELSE RetainedPart(Head(accs), account_balance(Head(accs), as_of_dt))
         + RetainedEarnings(Tail(accs), as_of_dt)

\* the context balance_sheet renders
BalanceSheet(as_of) ==
    IF as_of = ""
    THEN [as_of |-> NULL,
          assets_current |-> <<>>, assets_non_current |-> <<>>,
          liab_current |-> <<>>, liab_non_current |-> <<>>,
          equity_capital |-> <<>>, retained_earnings |-> 0,
          assets_total |-> 0, liab_total |-> 0,
          equity_total |-> 0, liab_equity_total |-> 0]
    ELSE
    LET as_of_dt == DateOf[as_of]
        accs == OrderById(accounts)
        assets_current == Bucket(accs, as_of_dt, "ASSET", "CURRENT_ASSET")
        assets_non_current == Bucket(accs, as_of_dt, "ASSET", "NON_CURRENT_ASSET")
        liab_current == Bucket(accs, as_of_dt, "LIABILITY", "CURRENT_LIABILITY")
        liab_non_current == Bucket(accs, as_of_dt, "LIABILITY", "NON_CURRENT_LIABILITY")
        equity_capital == Bucket(accs, as_of_dt, "EQUITY", "CAPITAL")
        retained_earnings == RetainedEarnings(accs, as_of_dt)
        assets_total == SumSeq(assets_current \o assets_non_current, "bal")
        liab_total == SumSeq(liab_current \o liab_non_current, "bal")
        eq_cap_total == SumSeq(equity_capital, "bal")
        equity_total == eq_cap_total + retained_earnings
    IN  [as_of |-> as_of,
         assets_current |-> assets_current,
         assets_non_current |-> assets_non_current,
         liab_current |-> liab_current, liab_non_current |-> liab_non_current,
         equity_capital |-> equity_capital,
         retained_earnings |-> retained_earnings,
         assets_total |-> assets_total, liab_total |-> liab_total,
         equity_total |-> equity_total,
         liab_equity_total |-> liab_total + equity_total]

\* GET /reports/balance-sheet
balance_sheet(as_of) ==
    /\ started
    /\ Authenticated
    /\ resp' = Rendered("balance_sheet", BalanceSheet(as_of))
    /\ UNCHANGED <<dialect, started, store, session>>

(***************************************************************************)
(* The requests the model draws and the specifications.                    *)
(***************************************************************************)
Usernames == {"admin", "bob"}
Passwords == {"change-me", "wrong"}
CodeInputs == {"1000", " 999"}
TypeInputs == {" asset ", "foo"}
SubtypeInputs == {"CURRENT_ASSET"}
NameInputs == {" Acme "}

\* startup and login
NextSession ==
    \/ Startup
    \/ \E u \in Usernames, p \in Passwords, n \in NextUrls : login_post(u, p, n)

\* the journal
NextJournal ==
    \/ \E d \in EntryDateStrs, form \in EntryForms : create_entry(d, form)
    \/ \E i \in RowIds : delete_entry(i)

Next == NextSession \/ NextJournal

Spec == Init /\ [][Next]_vars

\* the journal over a narrower choice of postings: the spec's 100.00 / 100.00
\* and 100.00 / 90.00 examples and a line with amounts finer than a cent
PostingInputs ==
    { [account |-> CashId, dr |-> "100.00", cr |-> ""],
      [account |-> SalesId, dr |-> "", cr |-> "100.00"],
      [account |-> SalesId, dr |-> "", cr |-> "90.00"],
      [account |-> SalesId, dr |-> "0.004", cr |-> "0.01"] }

PostingDateStrs == {"2024-01-05", "bad"}

NextPostings ==
    \/ \E d \in PostingDateStrs, form \in SeqsUpTo(PostingInputs, MaxLines) :
          create_entry(d, form)
    \/ \E i \in RowIds : delete_entry(i)

SpecPostings == Init /\ [][NextSession \/ NextPostings]_vars

\* the chart of accounts, a journal of at most MaxReportEntries entries
\* and the reports over them
NextReports ==
    \/ \E c \in CodeInputs, t \in TypeInputs, st \in SubtypeInputs :
          create_account(c, "Petty Cash", t, st, "")
    \/ \E d \in EntryDateStrs, form \in EntryForms :
          Cardinality(entries) < MaxReportEntries /\ create_entry(d, form)
    \/ \E i \in RowIds : delete_entry(i)
    \/ \E st \in QueryDates, en \in QueryDates : trial_balance(st, en)
    \/ \E as_of \in QueryDates : balance_sheet(as_of)

SpecReports == Init /\ [][NextSession \/ NextReports]_vars

CogsId == 12      \* "5000" Cost of Goods Sold, EXPENSE
RentId == 15      \* "5300" Rent Expense, EXPENSE

\* postings in whole cents to asset, income and expense accounts
StatementInputs ==
    { [account |-> CashId, dr |-> "100.00", cr |-> ""],
      [account |-> SalesId, dr |-> "", cr |-> "100.00"],
      [account |-> CogsId, dr |-> "100.00", cr |-> ""],
      [account |-> RentId, dr |-> "90.00", cr |-> ""],
      [account |-> SalesId, dr |-> "", cr |-> "90.00"] }

StatementEntryDates == {"2024-01-05", "2024-02-10"}

StatementDates == {"", "2024-01-05", "2024-01-31"}

\* a journal of at most MaxReportEntries entries and the income statement
NextIncome ==
    \/ \E d \in StatementEntryDates, form \in SeqsUpTo(StatementInputs, MaxLines) :
          Cardinality(entries) < MaxReportEntries /\ create_entry(d, form)
    \/ \E i \in RowIds : delete_entry(i)
    \/ \E st \in StatementDates, en \in StatementDates : income_statement(st, en)

SpecIncome == Init /\ [][NextSession \/ NextIncome]_vars

\* logged-out requests, the chart of accounts and the master data tables
NextMaster ==
    \/ \E path \in ProtectedPaths : RequireUserFails(path)
    \/ logout
    \/ \E c \in CodeInputs, t \in TypeInputs, st \in SubtypeInputs :
          create_account(c, "Petty Cash", t, st, "")
    \/ \E n \in NameInputs : create_customer(n, "", "")
    \/ \E n \in NameInputs : create_supplier(n, "", "")
    \/ \E n \in NameInputs : create_item(n, "pcs")
    \/ \E i \in RowIds : delete_customer(i)
    \/ \E i \in RowIds : delete_supplier(i)
    \/ \E i \in RowIds : delete_item(i)

SpecMaster == Init /\ [][NextSession \/ NextMaster]_vars

\* postings in whole cents that leave an account with a debit balance, a
\* credit balance, or lines that cancel
TrialInputs ==
    { [account |-> CashId, dr |-> "100.00", cr |-> ""],
      [account |-> CashId, dr |-> "", cr |-> "100.00"],
      [account |-> SalesId, dr |-> "", cr |-> "100.00"] }

\* the entries are dated 2024-01-05: the bounds asked for lie before that
\* day, on it, after it, or are absent
TrialEntryDates == {"2024-01-05"}

\* (start, end): no bound; both bounds on the day; a start after it; an end
\* before it; a range around it
TrialRanges ==
    { <<"", "">>, <<"2024-01-05", "2024-01-05">>, <<"2024-01-31", "">>,
      <<"", "2024-01-01">>, <<"2024-01-01", "2024-01-31">> }

\* the chart of accounts with one more account, a journal of at most
\* MaxReportEntries entries and the trial balance
NextTrial ==
    \/ create_account("1005", "Petty Cash", " asset ", "CURRENT_ASSET", "")
    \/ \E d \in TrialEntryDates, form \in SeqsUpTo(TrialInputs, MaxLines) :
          Cardinality(entries) < MaxReportEntries /\ create_entry(d, form)
    \/ \E i \in RowIds : delete_entry(i)
    \/ \E r \in TrialRanges : trial_balance(r[1], r[2])

SpecTrial == Init /\ [][NextSession \/ NextTrial]_vars

\* the journal, the master data tables and their delete routes
NextDeletes ==
    \/ \E d \in PostingDateStrs, form \in SeqsUpTo(PostingInputs, MaxLines) :
          create_entry(d, form)
    \/ \E n \in NameInputs : create_customer(n, "", "")
    \/ \E n \in NameInputs : create_supplier(n, "", "")
    \/ \E n \in NameInputs : create_item(n, "pcs")
    \/ \E i \in RowIds : delete_entry(i)
    \/ \E i \in RowIds : delete_customer(i)
    \/ \E i \in RowIds : delete_supplier(i)
    \/ \E i \in RowIds : delete_item(i)

SpecDeletes == Init /\ [][NextSession \/ NextDeletes]_vars

(***************************************************************************)
(* Properties.                                                             *)
(***************************************************************************)
EntryLines(eid) == {l \in lines : l.entry_id = eid}

\* the entry's stored debits and credits agree at two decimals
EntryBalanced(e) ==
    Round2(SumField(EntryLines(e.id), "debit"))
        = Round2(SumField(EntryLines(e.id), "credit"))

\* the totals of a form differ at 2-decimal rounding
FormUnbalanced(form) ==
    Round2(SumSeq(Parsed(form), "debit")) # Round2(SumSeq(Parsed(form), "credit"))

FormParses(d, form) ==
    /\ ~StrptimeFails(d)
    /\ \A i \in 1..Len(form) : ~FloatFails(form[i].dr) /\ ~FloatFails(form[i].cr)

NotBalancedRedirect ==
    Redirect("create_entry", <<"/entries", "?error=Not%20balanced">>)

\* C1: every journal entry in the store is balanced: the debits of its
\* stored lines and the credits of its stored lines have the same sum at
\* two decimals.
C1_EntriesBalanced == \A e \in entries : EntryBalanced(e)

\* C2: a create_entry request whose total debit differs from its total
\* credit at 2-decimal rounding is answered by the redirect to
\* /entries?error=Not%20balanced and leaves journal_entries and
\* journal_lines as they were.
C2_UnbalancedRejected ==
    (started /\ Authenticated)
        => \A d \in EntryDateStrs, form \in EntryForms :
              (FormParses(d, form) /\ FormUnbalanced(form))
                  => /\ CreateEntry(d, form).resp = NotBalancedRedirect
                     /\ CreateEntry(d, form).entries = entries
                     /\ CreateEntry(d, form).lines = lines

\* an unbalanced request was turned away while the journal held an entry
C2_Witness == resp = NotBalancedRedirect /\ entries # {} /\ lines # {}

\* C3: for every start and end, the trial balance's total_debit equals its
\* total_credit.
C3_TrialBalanceTotalsEqual ==
    \A st \in QueryDates, en \in QueryDates :
        TrialBalance(st, en).total_debit = TrialBalance(st, en).total_credit

\* C4: over a ledger of balanced entries whose lines are on accounts of the
\* chart, for every as_of date the balance sheet has
\* assets_total = liab_equity_total.
C4_BalanceSheetIdentity ==
    (/\ \A e \in entries : EntryBalanced(e)
     /\ \A l \in lines : \E a \in accounts : a.id = l.account_id)
        => \A as_of \in QueryDates \ {""} :
              BalanceSheet(as_of).assets_total = BalanceSheet(as_of).liab_equity_total

\* C5: a request without an authenticated session to any route other than
\* /login and /logout changes no table and is answered by the redirect to
\* /login?next=<path>.
C5_LoginRequired ==
    [][(started /\ ~Authenticated /\ resp'.route \notin {"login_post", "logout"})
          => /\ store' = store
             /\ \E path \in ProtectedPaths :
                   resp' = Redirect("require_user",
                                    LOGIN_PATH \o <<"?next=">> \o quote(path))]_vars

\* C6: delete_entry on an existing entry removes that entry and exactly the
\* lines whose entry_id is that entry, changes no other table, and leaves
\* no line that refers to a missing entry.
C6_DeleteCascades ==
    [][\A i \in RowIds :
          (delete_entry(i) /\ \E e \in entries : e.id = i)
              => /\ entries' = {e \in entries : e.id # i}
                 /\ lines' = {l \in lines : l.entry_id # i}
                 /\ UNCHANGED <<users, accounts, customers, suppliers, items>>
                 /\ \A l \in lines' : \E e \in entries' : e.id = l.entry_id]_vars

\* an entry was deleted and another entry, with its lines, is still there
C6_Witness ==
    /\ resp = Redirect("delete_entry", <<"/entries">>)
    /\ entries # {}
    /\ lines # {}

\* C7: every stored line's account_id is the id of an account in the store.
C7_LinesReferenceAccounts ==
    \A l \in lines : \E a \in accounts : a.id = l.account_id

\* C8: every stored line has debit >= 0 and credit >= 0.
C8_AmountsNonNegative == \A l \in lines : l.debit >= 0 /\ l.credit >= 0

\* C9: every account in the store has one of the five account types.
C9_AccountTypesClosed == \A a \in accounts : a.type \in AccountTypes

\* the step adds to the table exactly one row, which carries the name
AddsOneRow(before, after, name) ==
    \E row \in after : row \notin before /\ after = before \cup {row} /\ row.name = name

\* C10: for an authenticated user, POST /customers, POST /suppliers and
\* POST /items with a name not yet in the table each add exactly one row
\* with the stripped name to their table and change no other table.
C10_CreateAddsOneRow ==
    [][\A n \in NameInputs :
          /\ (create_customer(n, "", "") /\ \A r \in customers : r.name # Strip(n))
                => /\ AddsOneRow(customers, customers', Strip(n))
                   /\ UNCHANGED <<users, accounts, entries, lines, suppliers, items>>
          /\ (create_supplier(n, "", "") /\ \A r \in suppliers : r.name # Strip(n))
                => /\ AddsOneRow(suppliers, suppliers', Strip(n))
                   /\ UNCHANGED <<users, accounts, entries, lines, customers, items>>
          /\ (create_item(n, "pcs") /\ \A r \in items : r.name # Strip(n))
                => /\ AddsOneRow(items, items', Strip(n))
                   /\ UNCHANGED <<users, accounts, entries, lines, customers,
                                  suppliers>>]_vars

\* the lines on the accounts accs whose entry is dated within [start_dt, end_dt]
LinesOn(accs, start_dt, end_dt) ==
    {l \in lines :
        /\ \E a \in accs : a.id = l.account_id
        /\ \E e \in entries :
              e.id = l.entry_id /\ start_dt <= e.date /\ e.date <= end_dt}

\* C11: with both start and end given, the income statement has income = the
\* credits on INCOME accounts, cogs = the debits on the account with code
\* "5000", other_exp = the debits on the other EXPENSE accounts, each over
\* the entries dated from start to end inclusive, gross_profit = income -
\* cogs and net_profit = gross_profit - other_exp; with start or end absent
\* all five are 0.
C11_IncomeStatement ==
    \A st \in StatementDates, en \in StatementDates :
        LET r == IncomeStatement(st, en)
        IN  IF st = "" \/ en = ""
            THEN /\ r.income = 0 /\ r.cogs = 0 /\ r.other_exp = 0
                 /\ r.gross_profit = 0 /\ r.net_profit = 0
            ELSE /\ r.income =
                      SumField(LinesOn({a \in accounts : a.type = "INCOME"},
                                       DateOf[st], DateOf[en]), "credit")
                 /\ r.cogs =
                      SumField(LinesOn({a \in accounts : a.code = "5000"},
                                       DateOf[st], DateOf[en]), "debit")
                 /\ r.other_exp =
                      SumField(LinesOn({a \in accounts : a.type = "EXPENSE"
                                                         /\ a.code # "5000"},
                                       DateOf[st], DateOf[en]), "debit")
                 /\ r.gross_profit = r.income - r.cogs
                 /\ r.net_profit = r.gross_profit - r.other_exp

\* an income statement was drawn over a sale and its cost of goods sold
C11_Witness ==
    /\ resp.route = "income_statement"
    /\ resp.ctx.income > 0
    /\ resp.ctx.cogs > 0
    /\ resp.ctx.net_profit = 0

\* the step is answered 404 and no table changes
NotFound(route) == resp'.route = route /\ resp'.status = 404 /\ store' = store

\* C12: delete_entry, delete_customer, delete_supplier and delete_item by a
\* logged-in user with an id that is not in the table are each answered 404
\* and leave every table unchanged.
C12_DeleteMissingIs404 ==
    [][\A i \in RowIds :
          /\ (delete_entry(i) /\ \A e \in entries : e.id # i)
                => NotFound("delete_entry")
          /\ (delete_customer(i) /\ \A c \in customers : c.id # i)
                => NotFound("delete_customer")
          /\ (delete_supplier(i) /\ \A x \in suppliers : x.id # i)
                => NotFound("delete_supplier")
          /\ (delete_item(i) /\ \A x \in items : x.id # i)
                => NotFound("delete_item")]_vars

\* a missing entry was asked for while the journal and the customers hold rows
C12_Witness ==
    /\ resp = Failed("delete_entry", 404)
    /\ entries # {}
    /\ lines # {}
    /\ customers # {}

\* POST /login finds the user and the password verifies
LoginSucceeds(username, password) ==
    \E u \in users : u.username = username
                     /\ verify_password(password, u.password_hash)

\* the URL names a scheme: a ":" before any "/", "?" or "#"
NamesScheme(u) ==
    \E i \in 2..Len(u) : u[i] = ":" /\ \A j \in 1..(i - 1) : u[j] \notin {"/", "?", "#", ":"}

\* a browser that follows the URL from a page of this site leaves the site:
\* the URL names a scheme, or it opens with two or more slashes and then a
\* host (browsers skip every slash before the host of an http(s) URL)
LeavesSite(u) ==
    \/ NamesScheme(u)
    \/ \E k \in 3..Len(u) :
          /\ u[k] \notin {"/", "?", "#"}
          /\ \A j \in 1..(k - 1) : u[j] = "/"

\* begins with "/" and names no other site
SameSitePath(u) == Len(u) >= 1 /\ u[1] = "/" /\ ~LeavesSite(u)

\* C13: after a successful POST /login the redirect goes to the submitted
\* next when next is a same-site relative path and to "/" for every other
\* next, so it never leads to another site.
C13_LoginRedirectStaysOnSite ==
    [][\A u \in Usernames, p \in Passwords, n \in NextUrls :
          (login_post(u, p, n) /\ LoginSucceeds(u, p))
              => /\ resp'.status = 303
                 /\ resp'.location = IF SameSitePath(n) THEN n ELSE <<"/">>
                 /\ ~LeavesSite(resp'.location)]_vars

\* the lines of account a in entries dated within the bounds that are given
LinesWithin(a, st, en) ==
    {l \in lines :
        /\ l.account_id = a.id
        /\ \E e \in entries :
              /\ e.id = l.entry_id
              /\ st = "" \/ DateOf[st] <= e.date
              /\ en = "" \/ e.date <= DateOf[en]}

\* (sum of debits) - (sum of credits) of account a within the bounds
Raw(a, st, en) ==
    SumField(LinesWithin(a, st, en), "debit")
        - SumField(LinesWithin(a, st, en), "credit")

\* C14: the trial balance has one row per account, in ascending code order;
\* the row of an account whose raw debits minus credits within the given
\* bounds is raw has debit = raw, credit = 0 when raw > 0, debit = 0,
\* credit = -raw when raw < 0, and both 0 when raw = 0, whatever the
\* account's type.
C14_TrialBalanceRows ==
    resp.route = "trial_balance" =>
        \A rows \in {resp.ctx.rows}, st \in {resp.ctx.start}, en \in {resp.ctx.end} :
            /\ Len(rows) = Cardinality(accounts)
            /\ \A a \in accounts :
                  \A raw \in {Raw(a, st, en)} :
                      \E i \in 1..Len(rows) :
                          /\ rows[i].code = a.code
                          /\ rows[i].name = a.name
                          /\ \A j \in 1..Len(rows) : rows[j].code = a.code => j = i
                          /\ rows[i].debit = IF raw > 0 THEN raw ELSE 0
                          /\ rows[i].credit = IF raw < 0 THEN 0 - raw ELSE 0
            /\ \A i \in 1..Len(rows), j \in 1..Len(rows) :
                  i < j => LexLess(CodeChars[rows[i].code], CodeChars[rows[j].code])

\* a trial balance over a dated range was drawn with the added account in
\* the chart, a row in the debit column and a row in the credit column
C14_Witness ==
    /\ resp.route = "trial_balance"
    /\ resp.ctx.start # ""
    /\ Len(resp.ctx.rows) = Len(SeedChart) + 1
    /\ \E i \in 1..Len(resp.ctx.rows) : resp.ctx.rows[i].debit > 0
    /\ \E i \in 1..Len(resp.ctx.rows) : resp.ctx.rows[i].credit > 0

\* C15: a run of startup adds no account whose code is already present and
\* no second user named admin, keeps every existing account, user, entry and
\* line as it is, and changes nothing once startup has run before.
C15_StartupIdempotent ==
    [][Startup =>
          /\ \A a \in accounts : a \in accounts'
          /\ \A u \in users : u \in users'
          /\ entries' = entries
          /\ lines' = lines
          /\ \A a \in accounts', b \in accounts' : a.code = b.code => a = b
          /\ \A u \in users', v \in users' : u.username = v.username => u = v
          /\ \E u \in users' : u.username = "admin"
          /\ started => store' = store]_vars

\* startup has run over a chart with an added account and a journal with an
\* entry: a further run starts from this store
C15_Witness ==
    /\ started
    /\ Cardinality(accounts) = Len(SeedChart) + 1
    /\ \E u \in users : u.username = "admin"
    /\ entries # {}
    /\ lines # {}

=============================================================================
